---- MODULE Spec2Model ----
(***************************************************************************)
(* Library management API (Express + Mongoose): the book handlers of       *)
(* books.controller.ts, the borrow workflow and the two collections they   *)
(* share.  Every handler is an async function: it runs without preemption  *)
(* up to its next await, a store operation runs atomically, and handlers   *)
(* of concurrent requests interleave at the awaits.                        *)
(***************************************************************************)
EXTENDS Integers, Sequences, FiniteSets, TLC

\* ------------------------------------------------------------- bounds
NumBooks == 2        \* book identifiers the store can hand out
NumReq == 2          \* requests handled in one behaviour
MaxCopies == 5       \* largest copy count a request body carries
MaxQuantity == 3     \* largest quantity a borrow request carries
MaxListBooks == 3    \* books in the store of the listing specification
MaxLimit == 2        \* largest limit and page a listing request carries
MaxRecords == 3      \* borrow records in the store of the summary specification
MaxCalls == 4        \* calls of connectDB in the connection specification

\* ------------------------------------------------------------- program constants
DefaultLimit == 10   \* limit = 10 when the query carries none
DefaultPage == 1     \* page = 1 when the query carries none

\* ------------------------------------------------------------- values
Genres == {"FANTASY", "SCIENCE"}
BookIds == 1..NumBooks      \* the well-formed identifiers (ObjectIds)

VARIABLES
  books,      \* Book collection: identifier -> document, for the documents that exist
  borrows,    \* Borrow collection: sequence of [book, quantity], in insertion order
  nextId,     \* next identifier the store assigns (identifiers are never reused)
  reqs,       \* the handlers' states, one per request, in order of arrival
  isConnected,  \* server.ts: let isConnected
  connects,     \* how many times mongoose.connect has been invoked
  calls         \* the calls of connectDB, in order of their start: where each one is

server == <<isConnected, connects, calls>>

vars == <<books, borrows, nextId, reqs, isConnected, connects, calls>>

\* let isConnected = false, before main() runs
ServerInit == isConnected = FALSE /\ connects = 0 /\ calls = <<>>

\* IBooks: the fields the handlers read or write
Doc(c, a, g) == [copies |-> c, available |-> a, genre |-> g]

Exists(id) == id \in DOMAIN books

\* ------------------------------------------------------------ responses
\* res.status(st).json(..): the first call sends the response, a later call throws
\* ERR_HTTP_HEADERS_SENT
Json(res, st) ==
  [attempts |-> Append(res.attempts, st), threw |-> res.attempts # <<>>]

Res0 == [attempts |-> <<>>, threw |-> FALSE]

\* catch (error) { res.status(st).json(..) }: runs when the try block threw; what it
\* throws itself leaves the handler as a rejected promise
Catch(res, st) ==
  IF res.threw
    THEN LET r == Json([attempts |-> res.attempts, threw |-> FALSE], st)
         IN [attempts |-> r.attempts, escaped |-> r.threw]
    ELSE [attempts |-> res.attempts, escaped |-> FALSE]

\* try { const doc = await ..; if (!doc) { 404 } ; 200 } catch { 500 }
FoundOr404(found) ==
  LET r1 == IF found THEN Res0 ELSE Json(Res0, 404)
      r2 == IF r1.threw THEN r1 ELSE Json(r1, 200)
  IN Catch(r2, 500)

\* the awaited store operation rejected: the try block threw before any response
StoreThrew == Catch([attempts |-> <<>>, threw |-> TRUE], 500)

Done(r, out) == [r EXCEPT !.pc = "done", !.attempts = out.attempts, !.escaped = out.escaped]

Sent(st) == [attempts |-> <<st>>, escaped |-> FALSE]

\* ------------------------------------------------------------ schemas
\* a field a body may leave out is a set: {} when absent, {v} when present
\* bookParamsSchema: bookId is an ObjectId; 0 stands for a string that is none
ParamsOK(id) == id \in BookIds
CopiesOK(c) == c >= 0
BookSchemaOK(body) ==
  /\ body.copies # {}
  /\ \A c \in body.copies : CopiesOK(c)
  /\ body.genre \subseteq Genres /\ body.genre # {}
BookUpdateSchemaOK(body) == \A c \in body.copies : CopiesOK(c)

IdInputs == 0..NumBooks
CopiesInputs == (-1)..MaxCopies

\* ------------------------------------------------------------ requests
NoQuery == [filter |-> {}, sortBy |-> {}, sort |-> {}, limit |-> {}, page |-> {}]

Pagination(page, pages, total, limit, next, prev) ==
  [currentPage |-> page, totalPages |-> pages, totalBooks |-> total, limit |-> limit,
   hasNextPage |-> next, hasPrevPage |-> prev]

NoPagination == Pagination(0, 0, 0, 0, FALSE, FALSE)

NewReq(kind, id, body, q) ==
  [kind |-> kind, pc |-> "start", bookId |-> id, body |-> body, quantity |-> q,
   seen |-> {}, dec |-> FALSE, rec |-> FALSE, attempts |-> <<>>, escaped |-> FALSE,
   query |-> NoQuery, total |-> 0, data |-> <<>>, pagination |-> NoPagination]

NoBody == [copies |-> {}, available |-> {}, genre |-> {}]

Arrive(r) == Len(reqs) < NumReq /\ reqs' = Append(reqs, r)

At(i, kind, pc) == reqs[i].kind = kind /\ reqs[i].pc = pc

\* identifiers are handed out up to NumBooks: a valid creation is taken on only
\* while one is left for it
IdLeft ==
  nextId + Cardinality({i \in DOMAIN reqs : At(i, "postBook", "create")}) <= NumBooks

\* ------------------------------------------------------------ POST /api/books
PostBook ==
  /\ \E c \in CopiesInputs, a \in {{}, {TRUE}}, g \in Genres :
       LET body == [copies |-> {c}, available |-> a, genre |-> {g}]
           r == NewReq("postBook", 0, body, 0)
       IN /\ BookSchemaOK(body) => IdLeft
          /\ Arrive(IF ~BookSchemaOK(body) THEN Done(r, Sent(400))
                    ELSE [r EXCEPT !.pc = "create"])
  /\ UNCHANGED <<books, borrows, nextId>>

\* Book.create(data): the document is stored with available matching copies
CreatedDoc(body) ==
  LET c == CHOOSE x \in body.copies : TRUE
  IN Doc(c, c > 0, CHOOSE g \in body.genre : TRUE)

BookCreate(i) ==
  /\ At(i, "postBook", "create")
  /\ \/ /\ books' = books @@ (nextId :> CreatedDoc(reqs[i].body))
        /\ nextId' = nextId + 1
        /\ reqs' = [reqs EXCEPT ![i] = Done(reqs[i], Sent(201))]
     \/ /\ reqs' = [reqs EXCEPT ![i] = Done(reqs[i], StoreThrew)]
        /\ UNCHANGED <<books, nextId>>
  /\ UNCHANGED borrows

\* ------------------------------------------------------------ GET /api/books/:bookId
GetBook ==
  /\ \E id \in IdInputs :
       LET r == NewReq("getBook", id, NoBody, 0)
       IN Arrive(IF ~ParamsOK(id) THEN Done(r, Sent(400))
                 ELSE [r EXCEPT !.pc = "findById"])
  /\ UNCHANGED <<books, borrows, nextId>>

BookFindById(i) ==
  /\ At(i, "getBook", "findById")
  /\ \/ reqs' = [reqs EXCEPT ![i] = Done(reqs[i], FoundOr404(Exists(reqs[i].bookId)))]
     \/ reqs' = [reqs EXCEPT ![i] = Done(reqs[i], StoreThrew)]
  /\ UNCHANGED <<books, borrows, nextId>>

\* ------------------------------------------------------------ PUT /api/books/:bookId
PutBookNoBodyCheck ==
  /\ \E id \in IdInputs, c \in {{}} \cup {{x} : x \in CopiesInputs},
        a \in {{}, {TRUE}, {FALSE}} :
       LET body == [copies |-> c, available |-> a, genre |-> {}]
           r == NewReq("putBook", id, body, 0)
       IN Arrive(IF ~ParamsOK(id) THEN Done(r, Sent(400))
                 ELSE [r EXCEPT !.pc = "findOneAndUpdate"])
  /\ UNCHANGED <<books, borrows, nextId>>

PutBook ==
  /\ \E id \in IdInputs, c \in {{}} \cup {{x} : x \in CopiesInputs},
        a \in {{}, {TRUE}, {FALSE}} :
       LET body == [copies |-> c, available |-> a, genre |-> {}]
           r == NewReq("putBook", id, body, 0)
       IN Arrive(IF ~ParamsOK(id) THEN Done(r, Sent(400))
                 ELSE IF ~BookUpdateSchemaOK(body) THEN Done(r, Sent(400))
                 ELSE [r EXCEPT !.pc = "findOneAndUpdate"])
  /\ UNCHANGED <<books, borrows, nextId>>

\* pre("findOneAndUpdate") hook: an update that carries copies sets available with it
PreUpdateHook(update) ==
  IF update.copies # {}
    THEN [update EXCEPT !.available = {c > 0 : c \in update.copies}]
    ELSE update

\* the document after $set of the fields the update carries
ApplyUpdate(doc, update) ==
  [doc EXCEPT !.copies = IF update.copies = {} THEN @ ELSE CHOOSE c \in update.copies : TRUE,
              !.available = IF update.available = {} THEN @
                            ELSE CHOOSE a \in update.available : TRUE]

FindOneAndUpdate(doc, update) == ApplyUpdate(doc, PreUpdateHook(update))

BookFindOneAndUpdate(i) ==
  /\ At(i, "putBook", "findOneAndUpdate")
  /\ LET id == reqs[i].bookId IN
     \/ /\ books' = IF Exists(id)
                      THEN [books EXCEPT ![id] = FindOneAndUpdate(@, reqs[i].body)]
                      ELSE books
        /\ reqs' = [reqs EXCEPT ![i] = Done(reqs[i], FoundOr404(Exists(id)))]
     \/ /\ reqs' = [reqs EXCEPT ![i] = Done(reqs[i], StoreThrew)]
        /\ UNCHANGED books
  /\ UNCHANGED <<borrows, nextId>>

\* ------------------------------------------------------------ DELETE /api/books/:bookId
DeleteBook ==
  /\ \E id \in IdInputs :
       LET r == NewReq("deleteBook", id, NoBody, 0)
       IN Arrive(IF ~ParamsOK(id) THEN Done(r, Sent(400))
                 ELSE [r EXCEPT !.pc = "findOneAndDelete"])
  /\ UNCHANGED <<books, borrows, nextId>>

Without(f, id) == [x \in DOMAIN f \ {id} |-> f[x]]

\* Book.findOneAndDelete: the document is removed; its post hook then runs as a
\* second store operation before the awaited promise settles
BookFindOneAndDelete(i) ==
  /\ At(i, "deleteBook", "findOneAndDelete")
  /\ LET id == reqs[i].bookId IN
     \/ /\ Exists(id)
        /\ books' = Without(books, id)
        /\ reqs' = [reqs EXCEPT ![i].pc = "deleteMany"]
     \/ /\ ~Exists(id)
        /\ reqs' = [reqs EXCEPT ![i] = Done(reqs[i], FoundOr404(FALSE))]
        /\ UNCHANGED books
     \/ /\ reqs' = [reqs EXCEPT ![i] = Done(reqs[i], StoreThrew)]
        /\ UNCHANGED books
  /\ UNCHANGED <<borrows, nextId>>

\* post("findOneAndDelete") hook: Borrow.deleteMany({ book: doc._id })
DeleteMany(bs, id) == SelectSeq(bs, LAMBDA b : b.book # id)

BorrowDeleteMany(i) ==
  /\ At(i, "deleteBook", "deleteMany")
  /\ \/ /\ borrows' = DeleteMany(borrows, reqs[i].bookId)
        /\ reqs' = [reqs EXCEPT ![i] = Done(reqs[i], FoundOr404(TRUE))]
     \/ /\ reqs' = [reqs EXCEPT ![i] = Done(reqs[i], StoreThrew)]
        /\ UNCHANGED borrows
  /\ UNCHANGED <<books, nextId>>

\* ------------------------------------------------------------ POST /api/borrow
QuantityOK(q) == q >= 1
QuantityInputs == 0..MaxQuantity

PostBorrow ==
  /\ \E id \in IdInputs, q \in QuantityInputs :
       LET r == NewReq("postBorrow", id, NoBody, q)
       IN Arrive(IF ~(ParamsOK(id) /\ QuantityOK(q)) THEN Done(r, Sent(400))
                 ELSE [r EXCEPT !.pc = "findById"])
  /\ UNCHANGED <<books, borrows, nextId>>

\* steps 1 and 2: look the book up, then check the stock of the document found
InsufficientStockOffByOne(q, copies) == q > copies + 1

InsufficientStock(q, copies) == q > copies

BorrowFindById(i) ==
  /\ At(i, "postBorrow", "findById")
  /\ LET id == reqs[i].bookId IN
     \/ /\ ~Exists(id)
        /\ reqs' = [reqs EXCEPT ![i] = Done(reqs[i], Sent(404))]
     \/ /\ Exists(id)
        /\ reqs' = [reqs EXCEPT ![i] =
             IF InsufficientStock(reqs[i].quantity, books[id].copies)
               THEN Done([reqs[i] EXCEPT !.seen = {books[id].copies}], Sent(400))
               ELSE [reqs[i] EXCEPT !.seen = {books[id].copies}, !.pc = "save"]]
     \/ reqs' = [reqs EXCEPT ![i] = Done(reqs[i], Sent(500))]
  /\ UNCHANGED <<books, borrows, nextId>>

\* step 3, Book.updateBookCopiesAndAvailable(book, quantity): the document that was
\* looked up is decremented, its available flag recomputed, and saved
UpdateBookCopiesAndAvailable(copies, q) ==
  [copies |-> copies - q, available |-> copies - q > 0]

BorrowSave(i) ==
  /\ At(i, "postBorrow", "save")
  /\ LET id == reqs[i].bookId
         upd == UpdateBookCopiesAndAvailable(CHOOSE c \in reqs[i].seen : TRUE,
                                             reqs[i].quantity) IN
     \/ /\ Exists(id)
        /\ books' = [books EXCEPT ![id].copies = upd.copies,
                                  ![id].available = upd.available]
        /\ reqs' = [reqs EXCEPT ![i].pc = "create", ![i].dec = TRUE]
     \/ /\ reqs' = [reqs EXCEPT ![i] = Done(reqs[i], Sent(500))]
        /\ UNCHANGED books
  /\ UNCHANGED <<borrows, nextId>>

\* step 4, Borrow.create({ book, quantity, dueDate })
BorrowCreate(i) ==
  /\ At(i, "postBorrow", "create")
  /\ \/ /\ borrows' = Append(borrows, [book |-> reqs[i].bookId,
                                       quantity |-> reqs[i].quantity])
        /\ reqs' = [reqs EXCEPT ![i] = Done([reqs[i] EXCEPT !.rec = TRUE], Sent(201))]
     \/ /\ reqs' = [reqs EXCEPT ![i] = Done(reqs[i], Sent(500))]
        /\ UNCHANGED borrows
  /\ UNCHANGED <<books, nextId>>

\* ------------------------------------------------------------ GET /api/books
\* String.prototype.toUpperCase on the filters the requests carry
ToUpperCase(str) ==
  CASE str = "fantasy" -> "FANTASY"
    [] str = "Science" -> "SCIENCE"
    [] str = "poetry" -> "POETRY"
    [] OTHER -> str

FilterInputs == {"fantasy", "FANTASY", "Science", "poetry"}

\* querySchema: filter names a genre in any case, limit and page are positive
QuerySchemaOK(q) ==
  /\ \A f \in q.filter : ToUpperCase(f) \in Genres
  /\ \A l \in q.limit : l >= 1
  /\ \A pg \in q.page : pg >= 1

Opt(S) == {{}} \cup {{x} : x \in S}

GetBooks ==
  /\ reqs = <<>>
  /\ \E f \in Opt(FilterInputs), sb \in Opt({"copies"}), so \in Opt({"desc"}),
        l \in Opt(0..MaxLimit), pg \in Opt(0..MaxLimit) :
       LET q == [filter |-> f, sortBy |-> sb, sort |-> so, limit |-> l, page |-> pg]
           r == [NewReq("getBooks", 0, NoBody, 0) EXCEPT !.query = q]
       IN reqs' = <<IF q = NoQuery THEN [r EXCEPT !.pc = "findDefault"]
                    ELSE IF ~QuerySchemaOK(q) THEN Done(r, Sent(400))
                    ELSE [r EXCEPT !.pc = "countDocuments"]>>
  /\ UNCHANGED <<books, borrows, nextId>>

\* const { filter, sortBy, sort, limit = 10, page = 1 } = parseResult.data
LimitOf(q) == IF q.limit = {} THEN DefaultLimit ELSE CHOOSE l \in q.limit : TRUE
PageOf(q) == IF q.page = {} THEN DefaultPage ELSE CHOOSE pg \in q.page : TRUE

\* query.genre = filter.toUpperCase(), when the query carries a filter
Matches(doc, q) == \A f \in q.filter : doc.genre = ToUpperCase(f)

\* Book.find(query): the matching identifiers in natural (insertion) order
RECURSIVE FindFrom(_, _, _)
FindFrom(bs, q, id) ==
  IF id >= nextId THEN <<>>
  ELSE IF id \in DOMAIN bs /\ Matches(bs[id], q)
         THEN <<id>> \o FindFrom(bs, q, id + 1)
         ELSE FindFrom(bs, q, id + 1)

Find(bs, q) == FindFrom(bs, q, 1)

CountDocuments(bs, q) == Len(Find(bs, q))

\* sortOptions[sortBy] = sort === "desc" ? -1 : 1; no sortBy leaves the natural order
Precedes(bs, q, x, y) ==
  IF q.sortBy = {} THEN FALSE
  ELSE IF q.sort = {"desc"} THEN bs[x].copies > bs[y].copies
       ELSE bs[x].copies < bs[y].copies

\* insert x after the last element it does not precede (the sort is stable)
RECURSIVE Insert(_, _, _, _)
Insert(bs, q, sorted, x) ==
  IF sorted = <<>> THEN <<x>>
  ELSE IF Precedes(bs, q, x, Head(sorted)) THEN <<x>> \o sorted
       ELSE <<Head(sorted)>> \o Insert(bs, q, Tail(sorted), x)

RECURSIVE Sort(_, _, _)
Sort(bs, q, ids) ==
  IF ids = <<>> THEN <<>>
  ELSE Insert(bs, q, Sort(bs, q, SubSeq(ids, 1, Len(ids) - 1)), ids[Len(ids)])

\* const skip = (page - 1) * limit
SkipOffByOne(page, limit) == page * limit

SkipOf(page, limit) == (page - 1) * limit

Skip(ids, n) == SubSeq(ids, n + 1, Len(ids))
Limit(ids, n) == SubSeq(ids, 1, IF n < Len(ids) THEN n ELSE Len(ids))

\* Math.ceil(a / b) for a >= 0, b >= 1
Ceil(a, b) == (a + b - 1) \div b

\* no query parameters: find({}).limit(10), then countDocuments({})
BooksFindDefault(i) ==
  /\ At(i, "getBooks", "findDefault")
  /\ \/ reqs' = [reqs EXCEPT ![i].data = Limit(Find(books, NoQuery), DefaultLimit),
                              ![i].pc = "countDefault"]
     \/ reqs' = [reqs EXCEPT ![i] = Done(reqs[i], StoreThrew)]
  /\ UNCHANGED <<books, borrows, nextId>>

BooksCountDefault(i) ==
  /\ At(i, "getBooks", "countDefault")
  /\ \/ LET totalBooks == CountDocuments(books, NoQuery) IN
        reqs' = [reqs EXCEPT ![i] =
          Done([reqs[i] EXCEPT !.total = totalBooks,
                  !.pagination = Pagination(DefaultPage, Ceil(totalBooks, DefaultLimit),
                                            totalBooks, DefaultLimit,
                                            totalBooks > DefaultLimit, FALSE)],
               Sent(200))]
     \/ reqs' = [reqs EXCEPT ![i] = Done([reqs[i] EXCEPT !.data = <<>>], StoreThrew)]
  /\ UNCHANGED <<books, borrows, nextId>>

\* with query parameters: countDocuments(query), then find(query).sort.skip.limit
BooksCountDocuments(i) ==
  /\ At(i, "getBooks", "countDocuments")
  /\ \/ reqs' = [reqs EXCEPT ![i].total = CountDocuments(books, reqs[i].query),
                              ![i].pc = "find"]
     \/ reqs' = [reqs EXCEPT ![i] = Done(reqs[i], StoreThrew)]
  /\ UNCHANGED <<books, borrows, nextId>>

BooksFind(i) ==
  /\ At(i, "getBooks", "find")
  /\ \/ LET q == reqs[i].query
            limit == LimitOf(q)
            page == PageOf(q)
            totalBooks == reqs[i].total
            totalPages == Ceil(totalBooks, limit)
            found == Limit(Skip(Sort(books, q, Find(books, q)), SkipOf(page, limit)), limit)
        IN reqs' = [reqs EXCEPT ![i] =
             Done([reqs[i] EXCEPT !.data = found,
                     !.pagination = Pagination(page, totalPages, totalBooks, limit,
                                               page < totalPages, page > 1)],
                  Sent(200))]
     \/ reqs' = [reqs EXCEPT ![i] = Done([reqs[i] EXCEPT !.total = 0], StoreThrew)]
  /\ UNCHANGED <<books, borrows, nextId>>

\* ------------------------------------------------------------ GET /api/borrow
GetBorrow ==
  /\ reqs = <<>>
  /\ reqs' = <<[NewReq("getBorrow", 0, NoBody, 0) EXCEPT !.pc = "aggregate"]>>
  /\ UNCHANGED <<books, borrows, nextId>>

\* $group: { _id: "$book", totalQuantity: { $sum: "$quantity" } }, folded over the
\* records; a group is opened by the first record of its book
GroupAppendAlways(bs, acc) ==
  [k \in DOMAIN bs |-> [_id |-> bs[k].book, totalQuantity |-> bs[k].quantity]]

RECURSIVE GroupStage(_, _)
GroupStage(bs, acc) ==
  IF bs = <<>> THEN acc
  ELSE LET b == Head(bs) IN
       IF \E k \in DOMAIN acc : acc[k]._id = b.book
         THEN GroupStage(Tail(bs),
                [k \in DOMAIN acc |->
                   IF acc[k]._id = b.book
                     THEN [acc[k] EXCEPT !.totalQuantity = @ + b.quantity]
                     ELSE acc[k]])
         ELSE GroupStage(Tail(bs),
                Append(acc, [_id |-> b.book, totalQuantity |-> b.quantity]))

\* $lookup from books and $unwind: a group whose book is not in the collection
\* yields no entry; $project names the book and the total
LookupUnwind(groups, bks) == SelectSeq(groups, LAMBDA g : g._id \in DOMAIN bks)

Project(groups) ==
  [k \in DOMAIN groups |->
     [book |-> groups[k]._id, totalQuantity |-> groups[k].totalQuantity]]

BorrowedBooksSummary(bs, bks) == Project(LookupUnwind(GroupStage(bs, <<>>), bks))

BorrowAggregate(i) ==
  /\ At(i, "getBorrow", "aggregate")
  /\ \/ reqs' = [reqs EXCEPT ![i] =
          Done([reqs[i] EXCEPT !.data = BorrowedBooksSummary(borrows, books)], Sent(200))]
     \/ reqs' = [reqs EXCEPT ![i] = Done(reqs[i], Sent(500))]
  /\ UNCHANGED <<books, borrows, nextId>>

\* ------------------------------------------------------------ specification
\* the store when the requests start: any books earlier creations have left
SeedDocs == {Doc(c, c > 0, g) : c \in 0..MaxCopies, g \in Genres}

Init ==
  /\ \E k \in 0..(NumBooks - 1) :
       /\ books \in [1..k -> SeedDocs]
       /\ nextId = k + 1
  /\ borrows = <<>>
  /\ reqs = <<>>
  /\ ServerInit

Next ==
  \/ PostBook /\ UNCHANGED server
  \/ GetBook /\ UNCHANGED server
  \/ PutBook /\ UNCHANGED server
  \/ DeleteBook /\ UNCHANGED server
  \/ PostBorrow /\ UNCHANGED server
  \/ \E i \in DOMAIN reqs : BookCreate(i) /\ UNCHANGED server
  \/ \E i \in DOMAIN reqs : BookFindById(i) /\ UNCHANGED server
  \/ \E i \in DOMAIN reqs : BookFindOneAndUpdate(i) /\ UNCHANGED server
  \/ \E i \in DOMAIN reqs : BookFindOneAndDelete(i) /\ UNCHANGED server
  \/ \E i \in DOMAIN reqs : BorrowDeleteMany(i) /\ UNCHANGED server
  \/ \E i \in DOMAIN reqs : BorrowFindById(i) /\ UNCHANGED server
  \/ \E i \in DOMAIN reqs : BorrowSave(i) /\ UNCHANGED server
  \/ \E i \in DOMAIN reqs : BorrowCreate(i) /\ UNCHANGED server

Spec == Init /\ [][Next]_vars


\* the listing specification: one GET /api/books against a store of up to
\* MaxListBooks books
ListDocs == {Doc(c, c > 0, g) : c \in {0, MaxCopies}, g \in Genres}

InitList ==
  /\ \E k \in 0..MaxListBooks :
       /\ books \in [1..k -> ListDocs]
       /\ nextId = k + 1
  /\ borrows = <<>>
  /\ reqs = <<>>
  /\ ServerInit

NextList ==
  \/ GetBooks /\ UNCHANGED server
  \/ \E i \in DOMAIN reqs : BooksFindDefault(i) /\ UNCHANGED server
  \/ \E i \in DOMAIN reqs : BooksCountDefault(i) /\ UNCHANGED server
  \/ \E i \in DOMAIN reqs : BooksCountDocuments(i) /\ UNCHANGED server
  \/ \E i \in DOMAIN reqs : BooksFind(i) /\ UNCHANGED server

SpecList == InitList /\ [][NextList]_vars

\* the summary specification: one GET /api/borrow against a store of up to
\* MaxRecords borrow records, some of them of books that no longer exist
RecordSeqs ==
  UNION {[1..n -> [book : BookIds, quantity : 1..MaxQuantity]] : n \in 0..MaxRecords}

InitSummary ==
  /\ \E S \in SUBSET BookIds : books = [id \in S |-> Doc(MaxCopies, TRUE, "FANTASY")]
  /\ nextId = NumBooks + 1
  /\ borrows \in RecordSeqs
  /\ reqs = <<>>
  /\ ServerInit

NextSummary ==
  \/ GetBorrow /\ UNCHANGED server
  \/ \E i \in DOMAIN reqs : BorrowAggregate(i) /\ UNCHANGED server

SpecSummary == InitSummary /\ [][NextSummary]_vars

\* the connection specification: connectDB called by main() and by any later
\* caller, a call starting at any time, also while an earlier one awaits
\* mongoose.connect
\* if (!isConnected) { await mongoose.connect(..): the call is suspended with the
\* connection attempt under way; with the flag set the call returns at once
ConnectDB ==
  /\ Len(calls) < MaxCalls
  /\ IF ~isConnected
       THEN /\ connects' = connects + 1
            /\ calls' = Append(calls, "connect")
       ELSE /\ calls' = Append(calls, "returned")
            /\ UNCHANGED connects
  /\ UNCHANGED <<isConnected, books, borrows, nextId, reqs>>

\* mongoose.connect resolved: isConnected = true, and the call returns
ConnectResolved(i) ==
  /\ calls[i] = "connect"
  /\ isConnected' = TRUE
  /\ calls' = [calls EXCEPT ![i] = "returned"]
  /\ UNCHANGED <<connects, books, borrows, nextId, reqs>>

\* mongoose.connect rejected: the call throws to its caller, the flag stays false
ConnectRejected(i) ==
  /\ calls[i] = "connect"
  /\ calls' = [calls EXCEPT ![i] = "threw"]
  /\ UNCHANGED <<isConnected, connects, books, borrows, nextId, reqs>>

InitConnect ==
  /\ books = <<>>
  /\ nextId = 1
  /\ borrows = <<>>
  /\ reqs = <<>>
  /\ ServerInit

NextConnect ==
  \/ ConnectDB
  \/ \E i \in DOMAIN calls : ConnectResolved(i)
  \/ \E i \in DOMAIN calls : ConnectRejected(i)

SpecConnect == InitConnect /\ [][NextConnect]_vars

\* ------------------------------------------------------------ claims
Borrows == {i \in DOMAIN reqs : reqs[i].kind = "postBorrow"}
ById == {i \in DOMAIN reqs : reqs[i].kind \in {"getBook", "putBook", "deleteBook"}}
Finished(i) == reqs[i].pc = "done"
Succeeded(i) == Finished(i) /\ reqs[i].attempts = <<201>>
Succeeded200(i) == Finished(i) /\ reqs[i].attempts = <<200>>

\* C1: no book's copies ever goes below 0, and of two borrow requests against the
\* same book that both looked up the same stock (neither saw the other's decrement:
\* in a run of borrow requests alone, that is two interleaved requests) whose
\* combined quantity exceeds that stock, at most one succeeds.
C1_NoOversell ==
  /\ \A id \in DOMAIN books : books[id].copies >= 0
  /\ (\A k \in DOMAIN reqs : reqs[k].kind = "postBorrow") =>
       \A i, j \in Borrows :
          (/\ i # j /\ reqs[i].bookId = reqs[j].bookId
           /\ reqs[i].seen = reqs[j].seen
           /\ Succeeded(i) /\ Succeeded(j))
          => \A c \in reqs[i].seen : reqs[i].quantity + reqs[j].quantity <= c

\* C2: every stored book has available = (copies > 0).
C2_AvailableMatchesCopies ==
  \A id \in DOMAIN books : books[id].available = (books[id].copies > 0)

\* C3: a finished borrow request has either both decremented the copies and
\* persisted its Borrow record, or done neither.
C3_AllOrNothing ==
  \A i \in Borrows : Finished(i) => (reqs[i].dec = reqs[i].rec)

\* C4: a borrow whose quantity exceeds the copies of the book it looked up is
\* rejected with 400, never decrements the copies and never creates a record.
C4_InsufficientStockRejected ==
  \A i \in Borrows : \A c \in reqs[i].seen :
     reqs[i].quantity > c =>
        /\ Finished(i) /\ reqs[i].attempts = <<400>>
        /\ ~reqs[i].dec /\ ~reqs[i].rec

C4_Witness ==
  \E i \in Borrows : \E c \in reqs[i].seen :
     /\ reqs[i].quantity > c /\ c > 0
     /\ Finished(i) /\ reqs[i].attempts = <<400>>
     /\ books[reqs[i].bookId].copies = c /\ borrows = <<>>

Orphans == {k \in DOMAIN borrows : ~Exists(borrows[k].book)}

\* C5: once every request has finished and no DELETE has failed, no Borrow record
\* references a book that no longer exists.
C5_NoOrphans ==
  (\A i \in DOMAIN reqs :
      /\ Finished(i)
      /\ reqs[i].kind = "deleteBook" => reqs[i].attempts[1] # 500)
  => Orphans = {}

RecordsOf(id) == {k \in DOMAIN borrows : borrows[k].book = id}

RECURSIVE SumOver(_)
SumOver(K) ==
  IF K = {} THEN 0
  ELSE LET k == CHOOSE x \in K : TRUE IN borrows[k].quantity + SumOver(K \ {k})

Summaries == {i \in DOMAIN reqs : reqs[i].kind = "getBorrow" /\ Succeeded200(i)}

\* C6: the summary a GET /api/borrow returns holds exactly one entry for every book
\* of the collection that has a Borrow record, with the sum of the quantities of that
\* book's records as its total, and no entry for any other book.
C6_SummaryPerBook ==
  \A i \in Summaries :
     LET data == reqs[i].data IN
     /\ \A id \in DOMAIN books :
          RecordsOf(id) # {} =>
             /\ Cardinality({k \in DOMAIN data : data[k].book = id}) = 1
             /\ \A k \in DOMAIN data :
                  data[k].book = id => data[k].totalQuantity = SumOver(RecordsOf(id))
     /\ \A k \in DOMAIN data :
          data[k].book \in DOMAIN books /\ RecordsOf(data[k].book) # {}

C6_Witness ==
  \E i \in Summaries :
     /\ Len(reqs[i].data) = 1 /\ Len(borrows) = MaxRecords
     /\ \E id \in DOMAIN books :
          Cardinality(RecordsOf(id)) > 1 /\ reqs[i].data[1].book = id
     /\ \E id \in DOMAIN books : RecordsOf(id) = {}

Listings == {i \in DOMAIN reqs : reqs[i].kind = "getBooks" /\ Succeeded200(i)}

Matching(q) == {id \in DOMAIN books : \A f \in q.filter : books[id].genre = ToUpperCase(f)}

\* the sort order: x comes before y: by the sort key in the direction asked for,
\* books of equal key (and all books, without sortBy) in order of insertion
Before(q, x, y) ==
  LET kx == books[x].copies
      ky == books[y].copies
  IN IF q.sortBy = {} \/ kx = ky THEN x < y
     ELSE IF q.sort = {"desc"} THEN kx > ky ELSE kx < ky

Position(q, x) == 1 + Cardinality({y \in Matching(q) : Before(q, y, x)})

\* C7: a GET /api/books with a valid query returns at most limit books, all of the
\* filtered genre: the matching books at positions (page-1)*limit+1 .. page*limit of
\* the sort order; totalBooks is the number of matching books, totalPages the least
\* number of pages of limit books that hold them, hasNextPage = (page < totalPages)
\* and hasPrevPage = (page > 1).
C7_Page ==
  \A i \in Listings :
     LET q == reqs[i].query
         data == reqs[i].data
         pg == reqs[i].pagination
         limit == IF q.limit = {} THEN 10 ELSE CHOOSE l \in q.limit : TRUE
         page == IF q.page = {} THEN 1 ELSE CHOOSE x \in q.page : TRUE
         n == Cardinality(Matching(q))
         first == (page - 1) * limit + 1
         last == IF page * limit < n THEN page * limit ELSE n
     IN /\ Len(data) <= limit
        /\ \A k \in DOMAIN data : data[k] \in Matching(q)
        /\ Len(data) = (IF last >= first THEN last - first + 1 ELSE 0)
        /\ \A k \in DOMAIN data : Position(q, data[k]) = first + k - 1
        /\ pg.totalBooks = n
        /\ pg.totalPages * limit >= n
        /\ pg.totalPages > 0 => (pg.totalPages - 1) * limit < n
        /\ pg.totalPages >= 0
        /\ pg.hasNextPage = (page < pg.totalPages)
        /\ pg.hasPrevPage = (page > 1)
        /\ pg.currentPage = page /\ pg.limit = limit

C7_Witness ==
  \E i \in Listings :
     /\ reqs[i].query.filter = {"fantasy"} /\ reqs[i].query.sortBy # {}
     /\ reqs[i].query.limit = {1} /\ reqs[i].query.page = {2}
     /\ Len(reqs[i].data) = 1
     /\ reqs[i].pagination.totalPages = 2 /\ reqs[i].pagination.hasPrevPage
     /\ \E id \in DOMAIN books : books[id].genre = "SCIENCE"

BadInput(r) ==
  \/ r.kind \in {"getBook", "putBook", "deleteBook"} /\ r.bookId \notin BookIds
  \/ r.kind \in {"postBook", "putBook"} /\ \E c \in r.body.copies : c < 0

\* C8: a request with a malformed bookId (GET, PUT, DELETE) or a body with negative
\* copies (POST, PUT) is answered 400 as soon as it arrives, the step that takes it
\* changes nothing in the store, and it never waits on a store operation.
C8_ValidationMutatesNothing ==
  [][\A i \in DOMAIN reqs' :
       BadInput(reqs'[i]) =>
          /\ reqs'[i].pc = "done" /\ reqs'[i].attempts = <<400>>
          /\ i \notin DOMAIN reqs => UNCHANGED <<books, borrows, nextId>>]_vars

C8_Witness ==
  /\ \E i \in DOMAIN reqs :
       /\ reqs[i].kind = "putBook" /\ reqs[i].bookId \in DOMAIN books
       /\ \E c \in reqs[i].body.copies : c < 0
       /\ reqs[i].attempts = <<400>>
  /\ \E i \in DOMAIN reqs :
       /\ reqs[i].kind = "deleteBook" /\ reqs[i].bookId \notin BookIds
       /\ reqs[i].attempts = <<400>>

\* C9: a GET, PUT or DELETE by id that answers 404 attempts no other response.
C9_SingleNotFoundResponse ==
  \A i \in ById :
     (Finished(i) /\ reqs[i].attempts[1] = 404) => reqs[i].attempts = <<404>>

\* C10: no exception leaves a book handler.
C10_NothingEscapes ==
  \A i \in DOMAIN reqs : reqs[i].kind # "postBorrow" => ~reqs[i].escaped

\* C11: however many calls of connectDB there are, and however they overlap,
\* mongoose.connect is invoked at most once.
C11_ConnectAtMostOnce == connects <= 1
====
